---- MODULE Spec2Model ----
(***************************************************************************)
(* The step orchestrator of bevy_wgsparkl (src/src/step.rs), the resources *)
(* it works on (src/src/resources.rs) and their construction               *)
(* (src/src/startup.rs).                                                   *)
(*                                                                         *)
(* The frame loop runs step_simulation once per frame; the model follows   *)
(* one invocation statement by statement (pc), because the readback tasks  *)
(* it spawns on the ComputeTaskPool run concurrently with it.  Host        *)
(* systems (input handling, scene setup, the rigid-body engine) own the    *)
(* same resources exclusively and therefore act only between invocations.  *)
(*                                                                         *)
(* Numbers: f32/f64 quantities are modelled as exact integers on a grid.   *)
(* Durations are kept in units of 1e-6 ms, velocities and gravity in units *)
(* of 0.01 m/s, and dt in units chosen so that gravity * dt / num_substeps *)
(* is exact for every modelled substep count.                              *)
(***************************************************************************)
EXTENDS Integers, Sequences, FiniteSets, TLC

VARIABLES
    run_state,        \* AppState::run_state
    num_substeps,     \* AppState::num_substeps
    physics,          \* Option<ResMut<PhysicsContext>>: the coupling set, when present
    has_instances,    \* whether particles.get_single() is Ok
    rapier,           \* the rigid-body world as the latest invocation read it
    device,           \* the render device: its features and its queue's timestamp period
    timings,          \* the Timestamps resource (the visible snapshot)
    channel,          \* TimestampChannel: aggregates sent and not yet received
    tasks,            \* readback tasks spawned and not yet finished
    pc,               \* position of the frame loop inside step_simulation
    sub,              \* loop counter of `for _ in 0..app_state.num_substeps`
    queue,            \* KernelInvocationQueue of the invocation
    encoder,          \* commands placed in the command encoder of the invocation
    poses_written,    \* the array the invocation in progress wrote to bodies.poses()
    vels_written,     \* the array the invocation in progress wrote to bodies.vels()
    submitted,        \* the command batches submitted by the invocation in progress
    frame,            \* history: number of invocations that passed the gate
    entry_state,      \* history: run_state when the latest invocation was entered
    submissions,      \* history: number of submissions of the latest invocation
    pending_at_entry, \* history: the channel when the invocation in progress was entered
    trace             \* history: the steps of the invocation in progress, in order

vars == <<run_state, num_substeps, physics, has_instances, rapier, device,
          timings, channel, tasks, pc, sub, queue, encoder, poses_written, vels_written,
          submitted, frame, entry_state, submissions, pending_at_entry, trace>>

hostVars == <<run_state, num_substeps, physics, has_instances, rapier>>
gpuVars == <<poses_written, vels_written>>
localVars == <<sub, queue, encoder>>
deviceVars == <<device>>
profVars == <<timings, channel, tasks>>

-----------------------------------------------------------------------------
(* Bounds of the model                                                     *)

MaxSubsteps == 2
MaxCoupling == 2
MaxFrames == 2

(* Program constants                                                       *)

NumStages == 9
QuerySetCapacity == 512
GravityY == -981
DtUnit == 12

\* Option<T>: None, or Some(x)
None == <<>>
Some(x) == <<x>>
is_some(o) == o /= <<>>
unwrap(o) == o[1]

RunState == {"Running", "Paused", "Step"}

-----------------------------------------------------------------------------
(* resources.rs: Timestamps                                                *)

StageNames == <<"grid_sort", "grid_update_cdf", "p2g_cdf", "g2p_cdf", "p2g",
                "grid_update", "g2p", "particles_update", "integrate_bodies">>

\* Timestamps::default(), with the given query-set; src is a history field:
\* the frame whose GPU work the duration fields measure (0: none).
DefaultTimestamps(qs) ==
    [timestamps |-> qs, src |-> 0,
     grid_sort |-> 0, grid_update_cdf |-> 0, p2g_cdf |-> 0, g2p_cdf |-> 0, p2g |-> 0,
     grid_update |-> 0, g2p |-> 0, particles_update |-> 0, integrate_bodies |-> 0]

total_time(t) ==
    t.grid_sort + t.grid_update_cdf + t.p2g_cdf + t.g2p_cdf + t.p2g
        + t.grid_update + t.g2p + t.particles_update + t.integrate_bodies

\* GpuTimestamps::new(device, 512): an empty query-set.  len counts the queries
\* written since the last clear; resolved the queries covered by the last
\* resolve command; frame (history) the invocation that submitted them.
NewGpuTimestamps == [capacity |-> QuerySetCapacity, len |-> 0, resolved |-> 0, frame |-> 0]

-----------------------------------------------------------------------------
(* The rigid-body world (bevy_rapier3d), as far as step.rs reads it        *)

Handles == 1 .. MaxCoupling

BodyTypes == <<"Dynamic", "Fixed", "KinematicPositionBased", "KinematicVelocityBased">>

\* rb.is_dynamic()
is_dynamic(rb) == rb.body_type = "Dynamic"

\* The world of index w: which bodies are dynamic, their velocities, the collider
\* poses and the integration step all differ from one world to the next.
World(w) ==
    [dt |-> DtUnit * w,
     bodies |-> [h \in Handles |->
                    [body_type |-> BodyTypes[((h + (2 * w)) % 4) + 1],
                     linvel |-> <<h, 3 * w - h, 0 - w>>,
                     angvel |-> <<w, h, h + w>>]],
     colliders |-> [h \in Handles |-> 10 * w + h]]

Worlds == {World(1), World(2)}

\* BodyCouplingEntry as the scene setup builds it: the collider and its parent body.
CouplingEntry(c) == [body |-> MaxCoupling + 1 - c, collider |-> c]

\* physics.data.coupling(): the coupled colliders, in the order fixed at scene setup.
CouplingChoices == {[j \in 1 .. l |-> CouplingEntry(j)] : l \in {0, MaxCoupling}}

NumSubstepsChoices == 1 .. MaxSubsteps

-----------------------------------------------------------------------------
(* step.rs 80-115: the data uploaded for the coupled bodies                *)

VAdd(a, b) == [x \in 1 .. 3 |-> a[x] + b[x]]
VScale(a, s) == [x \in 1 .. 3 |-> a[x] * s]
VDiv(a, s) == [x \in 1 .. 3 |-> a[x] \div s]
BoolToInt(b) == IF b THEN 1 ELSE 0

\* let gravity = Vector::y() * -9.81;
gravity == VScale(<<0, 1, 0>>, GravityY)

\* GpuSim::from_isometry(*c.position(), 1.0)
from_isometry(position, scale) == [isometry |-> position, scale |-> scale]

poses_data(coupling, world) ==
    [j \in 1 .. Len(coupling) |->
        from_isometry(world.colliders[coupling[j].collider], 1)]

\* The velocity with the gravity term added whatever the body type.
GpuVelocityAlwaysGravity(rb, dt, n) ==
    [linear |-> VAdd(rb.linvel, VDiv(VScale(gravity, dt), n)), angular |-> rb.angvel]

GpuVelocity(rb, dt, n) ==
    [linear |-> VAdd(rb.linvel,
                     VDiv(VScale(VScale(gravity, dt), BoolToInt(is_dynamic(rb))), n)),
     angular |-> rb.angvel]

vels_data(coupling, world, n) ==
    [j \in 1 .. Len(coupling) |->
        GpuVelocity(world.bodies[coupling[j].body], world.dt, n)]

-----------------------------------------------------------------------------
(* step.rs 173-205: the readback task's aggregation                        *)

\* The raw GPU clock samples of a resolved query-set, indexed from 0: pass p
\* starts at sample 2p and ends at sample 2p+1; its duration depends on the
\* pass and on the seed, which stands for what the device measured.
RawSample(seed, j) ==
    10 * (j \div 2) + (j % 2) * (1 + ((((j \div 2) + 1) * seed) % 7))

\* What a device may have measured.
Seeds == {1, 2}

\* timestamps.wait_for_results_async(): the whole result buffer.
wait_for_results(qs, seed) == [j \in 0 .. qs.capacity - 1 |-> RawSample(seed, j)]

\* GpuTimestamps::timestamps_to_ms(&values, timestamp_period), in units of 1e-6 ms.
timestamps_to_ms(values, period) == [j \in DOMAIN values |-> values[j] * period]

\* values.len()
Length(values) == Cardinality(DOMAIN values)

\* for (k, timing) in timings.iter_mut().enumerate(): the stages from k on.
RECURSIVE AddStages(_, _, _, _)
AddStages(new_timings, ms, start_index, k) ==
    IF k >= Len(StageNames) THEN new_timings
    ELSE AddStages(
            [new_timings EXCEPT ![StageNames[k + 1]] =
                @ + ms[start_index + k * 2 + 1] - ms[start_index + k * 2]],
            ms, start_index, k + 1)

\* A loop body that keeps the last substep's duration instead of summing.
RECURSIVE OverwriteStages(_, _, _, _)
OverwriteStages(new_timings, ms, start_index, k) ==
    IF k >= Len(StageNames) THEN new_timings
    ELSE OverwriteStages(
            [new_timings EXCEPT ![StageNames[k + 1]] =
                ms[start_index + k * 2 + 1] - ms[start_index + k * 2]],
            ms, start_index, k + 1)

\* The body of `for i in 0..num_substeps`.
SubstepBody(new_timings, ms, start_index, k) ==
    AddStages(new_timings, ms, start_index, k)

\* for i in 0..num_substeps: the substeps from i on.  An iteration is complete
\* before the next starts: reading a field of its result makes the evaluation
\* strict (the body leaves src alone, so the test always passes).
RECURSIVE AddSubsteps(_, _, _, _)
AddSubsteps(new_timings, ms, n, i) ==
    IF i >= n THEN new_timings
    ELSE LET after == SubstepBody(new_timings, ms, i * Len(StageNames) * 2, 0) IN
         IF after.src = new_timings.src
         THEN AddSubsteps(after, ms, n, i + 1)
         ELSE after

\* An aggregate that holds the durations only and lets go of the query-set.
AggregateDetached(qs, values, period, n) ==
    AddSubsteps([DefaultTimestamps(None) EXCEPT !.src = qs.frame],
                timestamps_to_ms(values, period), n, 0)

\* The aggregate a task builds from the resolved values of its query-set.
Aggregate(qs, values, period, n) ==
    AddSubsteps([DefaultTimestamps(Some(qs)) EXCEPT !.src = qs.frame],
                timestamps_to_ms(values, period), n, 0)

\* debug_assert!(timestamps_ms.len() >= num_substeps * 2 * 9, ...)
LengthAsserted(values, n) == Length(values) >= n * 2 * NumStages

-----------------------------------------------------------------------------
(* startup.rs 21-56: setup_app                                             *)

\* features.contains(Features::TIMESTAMP_QUERY).then(|| GpuTimestamps::new(device, 512))
\* The timestamp periods of the modelled devices, in ns per tick.
TimestampPeriods == {1, 2}

\* The devices: a device without TIMESTAMP_QUERY has no use for a timestamp period.
Devices ==
    {[timestamp_query |-> FALSE, timestamp_period |-> 1]} \cup
    [timestamp_query : {TRUE}, timestamp_period : TimestampPeriods]

\* A startup that creates the query-set whatever the device supports.
StartupTimestampsAlways(timestamp_query) == Some(NewGpuTimestamps)

StartupTimestamps(timestamp_query) ==
    IF timestamp_query THEN Some(NewGpuTimestamps) ELSE None

Init ==
    /\ run_state = "Running"
    /\ num_substeps = 1
    /\ physics = None
    /\ has_instances = FALSE
    /\ rapier = World(1)
    /\ device \in Devices
    /\ timings = DefaultTimestamps(StartupTimestamps(device.timestamp_query))
    /\ channel = <<>>
    /\ tasks = {}
    /\ pc = "idle"
    /\ sub = 0
    /\ queue = <<>>
    /\ encoder = <<>>
    /\ poses_written = None
    /\ vels_written = None
    /\ submissions = 0
    /\ pending_at_entry = <<>>
    /\ submitted = <<>>
    /\ frame = 0
    /\ entry_state = "NotEntered"
    /\ trace = <<>>

-----------------------------------------------------------------------------
(* The host between two invocations: input handling, scene setup           *)
(* (examples/*.rs), setup_graphics (startup.rs 58-74).                     *)

SetRunState(s) ==
    /\ pc = "idle"
    /\ run_state' = s
    /\ UNCHANGED <<num_substeps, physics, has_instances, rapier, deviceVars, profVars,
                   pc, localVars, gpuVars, submitted, pending_at_entry, frame,
                   entry_state, submissions, trace>>

SetNumSubsteps(n) ==
    /\ pc = "idle"
    /\ num_substeps' = n
    /\ UNCHANGED <<run_state, physics, has_instances, rapier, deviceVars, profVars,
                   pc, localVars, gpuVars, submitted, pending_at_entry, frame,
                   entry_state, submissions, trace>>

InsertPhysics(c) ==
    /\ pc = "idle"
    /\ physics = None
    /\ physics' = Some([coupling |-> c])
    /\ UNCHANGED <<run_state, num_substeps, has_instances, rapier, deviceVars, profVars,
                   pc, localVars, gpuVars, submitted, pending_at_entry, frame,
                   entry_state, submissions, trace>>

RemovePhysics ==
    /\ pc = "idle"
    /\ physics /= None
    /\ physics' = None
    /\ UNCHANGED <<run_state, num_substeps, has_instances, rapier, deviceVars, profVars,
                   pc, localVars, gpuVars, submitted, pending_at_entry, frame,
                   entry_state, submissions, trace>>

setup_graphics ==
    /\ pc = "idle"
    /\ physics /= None
    /\ ~has_instances
    /\ has_instances' = TRUE
    /\ UNCHANGED <<run_state, num_substeps, physics, rapier, deviceVars, profVars,
                   pc, localVars, gpuVars, submitted, pending_at_entry, frame,
                   entry_state, submissions, trace>>

Host ==
    \/ \E s \in RunState : SetRunState(s)
    \/ \E n \in NumSubstepsChoices : SetNumSubsteps(n)
    \/ \E c \in CouplingChoices : InsertPhysics(c)
    \/ RemovePhysics
    \/ setup_graphics

-----------------------------------------------------------------------------
(* step.rs 22-214: one invocation of step_simulation                       *)

\* step.rs 57: if app_state.run_state == RunState::Paused { return; }
GatedNever(rs) == FALSE
GatedUnlessRunning(rs) == rs /= "Running"
Gated(rs) == rs = "Paused"

\* An invocation that drains the channel before it looks for the PhysicsContext.
StepNoPhysicsDrains ==
    /\ pc = "idle"
    /\ physics = None
    /\ entry_state' = run_state
    /\ submissions' = 0
    /\ trace' = <<>>
    /\ submitted' = <<>>
    /\ IF channel /= <<>>
       THEN timings' = channel[Len(channel)] /\ channel' = <<>>
       ELSE UNCHANGED <<timings, channel>>
    /\ UNCHANGED <<hostVars, deviceVars, tasks, pc, localVars, gpuVars, frame,
                   pending_at_entry>>

\* step.rs 32: physics is None, the invocation does nothing.
StepNoPhysics ==
    /\ pc = "idle"
    /\ physics = None
    /\ entry_state' = run_state
    /\ submissions' = 0
    /\ trace' = <<>>
    /\ submitted' = <<>>
    /\ UNCHANGED <<hostVars, deviceVars, profVars, pc, localVars, gpuVars, frame,
                   pending_at_entry>>

\* A paused invocation that drains the channel before it looks at the gate.
StepPausedDrains ==
    /\ pc = "idle"
    /\ physics /= None
    /\ Gated(run_state)
    /\ entry_state' = run_state
    /\ submissions' = 0
    /\ trace' = <<>>
    /\ submitted' = <<>>
    /\ IF channel /= <<>>
       THEN timings' = channel[Len(channel)] /\ channel' = <<>>
       ELSE UNCHANGED <<timings, channel>>
    /\ UNCHANGED <<hostVars, deviceVars, tasks, pc, localVars, gpuVars, frame,
                   pending_at_entry>>

\* step.rs 57-59: the early return.
StepPaused ==
    /\ pc = "idle"
    /\ physics /= None
    /\ Gated(run_state)
    /\ entry_state' = run_state
    /\ submissions' = 0
    /\ trace' = <<>>
    /\ submitted' = <<>>
    /\ UNCHANGED <<hostVars, deviceVars, profVars, pc, localVars, gpuVars, frame,
                   pending_at_entry>>

\* An invocation that passes the gate and skips the drain loop.
StepEnterNoDrain(w) ==
    /\ pc = "idle"
    /\ physics /= None
    /\ ~Gated(run_state)
    /\ frame < MaxFrames
    /\ frame' = frame + 1
    /\ rapier' = w
    /\ entry_state' = run_state
    /\ submissions' = 0
    /\ pending_at_entry' = channel
    /\ trace' = <<>>
    /\ submitted' = <<>>
    /\ pc' = "clear"
    /\ UNCHANGED <<run_state, num_substeps, physics, has_instances, deviceVars, profVars,
                   localVars, gpuVars>>

\* step.rs 57-61: the invocation goes on to the drain.  The rigid-body engine
\* has stepped since the last frame: w is the world this invocation will read.
StepEnter(w) ==
    /\ pc = "idle"
    /\ physics /= None
    /\ ~Gated(run_state)
    /\ frame < MaxFrames
    /\ frame' = frame + 1
    /\ rapier' = w
    /\ entry_state' = run_state
    /\ submissions' = 0
    /\ pending_at_entry' = channel
    /\ trace' = <<>>
    /\ submitted' = <<>>
    /\ pc' = "drain"
    /\ UNCHANGED <<run_state, num_substeps, physics, has_instances, deviceVars, profVars,
                   localVars, gpuVars>>

\* A drain that adds the received durations to the ones it holds.
ReceivedMerged(old_timings, new_timings) ==
    [new_timings EXCEPT !.grid_sort = @ + old_timings.grid_sort,
                        !.integrate_bodies = @ + old_timings.integrate_bodies]

\* step.rs 64: *timings = new_timings;
Received(old_timings, new_timings) == new_timings

\* A drain that reads the oldest aggregate and leaves it in the channel.
DrainPeek ==
    /\ pc = "drain"
    /\ channel /= <<>>
    /\ timings' = Received(timings, Head(channel))
    /\ trace' = Append(trace, "recv")
    /\ pc' = "clear"
    /\ UNCHANGED <<hostVars, deviceVars, channel, tasks, localVars, gpuVars, submitted,
                   pending_at_entry, frame, entry_state, submissions>>

\* step.rs 63-65: one iteration of the loop, try_recv() returned Ok(new_timings).
DrainRecv ==
    /\ pc = "drain"
    /\ channel /= <<>>
    /\ timings' = Received(timings, Head(channel))
    /\ channel' = Tail(channel)
    /\ trace' = Append(trace, "recv")
    /\ UNCHANGED <<hostVars, deviceVars, tasks, pc, localVars, gpuVars, submitted,
                   pending_at_entry, frame, entry_state, submissions>>

\* A drain that waits, on an empty channel, for the readback still in flight.
DrainEmptyBlocking ==
    /\ pc = "drain"
    /\ channel = <<>>
    /\ tasks = {}
    /\ pc' = "clear"
    /\ UNCHANGED <<hostVars, deviceVars, profVars, localVars, gpuVars, submitted,
                   pending_at_entry, frame, entry_state, submissions, trace>>

\* step.rs 63: try_recv() returned Err, the channel is empty and the loop ends.
DrainEmpty ==
    /\ pc = "drain"
    /\ channel = <<>>
    /\ pc' = "clear"
    /\ UNCHANGED <<hostVars, deviceVars, profVars, localVars, gpuVars, submitted,
                   pending_at_entry, frame, entry_state, submissions, trace>>

\* A clear that leaves the queries of the earlier frame in place.
clear_kept(qs) == qs

\* GpuTimestamps::clear
clear(qs) == [qs EXCEPT !.len = 0]

\* step.rs 67-76: clear the live query-set; a new queue and a new encoder.
ClearTimestamps ==
    /\ pc = "clear"
    /\ IF timings.timestamps /= None
       THEN /\ timings' = [timings EXCEPT !.timestamps = Some(clear(unwrap(@)))]
            /\ trace' = Append(trace, "clear")
       ELSE UNCHANGED <<timings, trace>>
    /\ queue' = <<>>
    /\ encoder' = <<>>
    /\ pc' = "upload_poses"
    /\ UNCHANGED <<hostVars, deviceVars, channel, tasks, sub, gpuVars, submitted,
                   pending_at_entry, frame, entry_state, submissions>>

\* An upload that returns from the invocation when no body is coupled.
UploadPosesOrReturn ==
    /\ pc = "upload_poses"
    /\ IF unwrap(physics).coupling = <<>>
       THEN /\ pc' = "collapse"
            /\ UNCHANGED <<poses_written, trace>>
       ELSE /\ poses_written' = Some(poses_data(unwrap(physics).coupling, rapier))
            /\ trace' = Append(trace, "write_poses")
            /\ pc' = "upload_vels"
    /\ UNCHANGED <<hostVars, deviceVars, profVars, localVars, vels_written, submitted,
                   pending_at_entry, frame, entry_state, submissions>>

\* rapier.colliders.colliders[coupling.collider] finds every coupled collider.
CollidersExist(coupling, world) ==
    \A j \in 1 .. Len(coupling) : coupling[j].collider \in DOMAIN world.colliders

\* rapier.rigidbody_set.bodies[coupling.body] finds every coupled body.
BodiesExist(coupling, world) ==
    \A j \in 1 .. Len(coupling) : coupling[j].body \in DOMAIN world.bodies

\* step.rs 80-93.  Indexing the collider set with a handle it does not hold
\* panics (line 85), before the write at line 89: the invocation, and the
\* application with it, stops there (pc = "panicked").
UploadPoses ==
    /\ pc = "upload_poses"
    /\ IF CollidersExist(unwrap(physics).coupling, rapier)
       THEN /\ poses_written' = Some(poses_data(unwrap(physics).coupling, rapier))
            /\ trace' = Append(trace, "write_poses")
            /\ pc' = "upload_vels"
       ELSE /\ pc' = "panicked"
            /\ UNCHANGED <<poses_written, trace>>
    /\ UNCHANGED <<hostVars, deviceVars, profVars, localVars, vels_written, submitted,
                   pending_at_entry, frame, entry_state, submissions>>

\* An upload that leaves out the coupled bodies the world no longer holds.
UploadVelsSkipMissing ==
    /\ pc = "upload_vels"
    /\ vels_written' =
            Some(vels_data(SelectSeq(unwrap(physics).coupling,
                                     LAMBDA e : e.body \in DOMAIN rapier.bodies),
                           rapier, num_substeps))
    /\ trace' = Append(trace, "write_vels")
    /\ pc' = "queue_step"
    /\ UNCHANGED <<hostVars, deviceVars, profVars, localVars, poses_written, submitted,
                   pending_at_entry, frame, entry_state, submissions>>

\* step.rs 95-115.  Indexing the body set with a handle it does not hold panics
\* (line 101), before the write at line 115.
UploadVels ==
    /\ pc = "upload_vels"
    /\ IF BodiesExist(unwrap(physics).coupling, rapier)
       THEN /\ vels_written' =
                    Some(vels_data(unwrap(physics).coupling, rapier, num_substeps))
            /\ trace' = Append(trace, "write_vels")
            /\ pc' = "queue_step"
       ELSE /\ pc' = "panicked"
            /\ UNCHANGED <<vels_written, trace>>
    /\ UNCHANGED <<hostVars, deviceVars, profVars, localVars, poses_written, submitted,
                   pending_at_entry, frame, entry_state, submissions>>

\* MpmPipeline::queue_step: the kernels of one substep, one pass per tracked stage.
queue_step(add_timestamps) ==
    [k \in 1 .. Len(StageNames) |-> [pass |-> StageNames[k], timed |-> add_timestamps]]

\* WgPrepVertexBuffer::queue: the render repack kernel.
prep_vertex_buffer_queue(q) == Append(q, [pass |-> "prep_vertex_buffer", timed |-> FALSE])

\* KernelInvocationQueue::encode: the commands the queue adds to the encoder.
Encoded(q) == [k \in 1 .. Len(q) |-> q[k].pass]

\* KernelInvocationQueue::encode: two queries written per pass of the queue.
WriteTimestamps(qs, q) ==
    IF qs = None THEN None ELSE Some([unwrap(qs) EXCEPT !.len = @ + 2 * Len(q)])

\* step.rs 118-120
QueueStep ==
    /\ pc = "queue_step"
    /\ queue' = queue_step(timings.timestamps /= None)
    /\ sub' = 0
    /\ trace' = Append(trace, "queue_step")
    /\ pc' = "encode"
    /\ UNCHANGED <<hostVars, deviceVars, profVars, encoder, gpuVars, submitted,
                   pending_at_entry, frame, entry_state, submissions>>

\* step.rs 122-124: one iteration of the loop.
EncodeSubstep ==
    /\ pc = "encode"
    /\ sub < num_substeps
    /\ encoder' = encoder \o Encoded(queue)
    /\ timings' = [timings EXCEPT !.timestamps = WriteTimestamps(@, queue)]
    /\ sub' = sub + 1
    /\ trace' = Append(trace, "encode_substep")
    /\ UNCHANGED <<hostVars, deviceVars, channel, tasks, pc, queue, gpuVars, submitted,
                   pending_at_entry, frame, entry_state, submissions>>

\* GpuTimestamps::resolve
resolve(qs) == [qs EXCEPT !.resolved = qs.len]

\* An end of the loop that submits the batch before the render repack.
CopyResolveAndSubmit ==
    /\ pc = "encode"
    /\ sub >= num_substeps
    /\ encoder' = Append(encoder, "copy_poses")
    /\ submitted' = Append(submitted, Append(encoder, "copy_poses"))
    /\ submissions' = submissions + 1
    /\ trace' = trace \o <<"copy_poses", "submit">>
    /\ pc' = "repack"
    /\ UNCHANGED <<hostVars, deviceVars, profVars, sub, queue, gpuVars,
                   pending_at_entry, frame, entry_state>>

\* step.rs 125-131: the loop is over; the pose copy and the query resolution.
CopyAndResolve ==
    /\ pc = "encode"
    /\ sub >= num_substeps
    /\ IF timings.timestamps /= None
       THEN /\ encoder' = encoder \o <<"copy_poses", "resolve">>
            /\ timings' = [timings EXCEPT !.timestamps = Some(resolve(unwrap(@)))]
            /\ trace' = trace \o <<"copy_poses", "resolve">>
       ELSE /\ encoder' = Append(encoder, "copy_poses")
            /\ trace' = Append(trace, "copy_poses")
            /\ UNCHANGED timings
    /\ pc' = "repack"
    /\ UNCHANGED <<hostVars, deviceVars, channel, tasks, sub, queue, gpuVars, submitted,
                   pending_at_entry, frame, entry_state, submissions>>

\* A clear that leaves the substep kernels in the queue.
queue_kept(q) == q

\* step.rs 135: queue.clear();
queue_clear(q) == <<>>

\* A render repack that is encoded into an encoder of its own.
RepackOwnEncoder ==
    /\ pc = "repack"
    /\ IF has_instances
       THEN LET q == prep_vertex_buffer_queue(queue_clear(queue)) IN
            /\ queue' = q
            /\ encoder' = Encoded(q)
            /\ timings' = [timings EXCEPT !.timestamps = WriteTimestamps(@, q)]
            /\ trace' = Append(trace, "encode_repack")
       ELSE UNCHANGED <<queue, encoder, timings, trace>>
    /\ pc' = "submit"
    /\ UNCHANGED <<hostVars, deviceVars, channel, tasks, sub, gpuVars, submitted,
                   pending_at_entry, frame, entry_state, submissions>>

\* step.rs 134-145: the render repack, when the instance buffer exists.
Repack ==
    /\ pc = "repack"
    /\ IF has_instances
       THEN LET q == prep_vertex_buffer_queue(queue_clear(queue)) IN
            /\ queue' = q
            /\ encoder' = encoder \o Encoded(q)
            /\ timings' = [timings EXCEPT !.timestamps = WriteTimestamps(@, q)]
            /\ trace' = Append(trace, "encode_repack")
       ELSE UNCHANGED <<queue, encoder, timings, trace>>
    /\ pc' = "submit"
    /\ UNCHANGED <<hostVars, deviceVars, channel, tasks, sub, gpuVars, submitted,
                   pending_at_entry, frame, entry_state, submissions>>

\* The query-set once the device has the batch that resolves it.
Measured(qs, f) == IF qs = None THEN None ELSE Some([unwrap(qs) EXCEPT !.frame = f])

\* step.rs 148: compute_queue.submit(Some(encoder.finish()));
Submit ==
    /\ pc = "submit"
    /\ submitted' = Append(submitted, encoder)
    /\ submissions' = submissions + 1
    /\ timings' = [timings EXCEPT !.timestamps = Measured(@, frame)]
    /\ trace' = Append(trace, "submit")
    /\ pc' = "spawn"
    /\ UNCHANGED <<hostVars, deviceVars, channel, tasks, localVars, gpuVars,
                   pending_at_entry, frame, entry_state>>

\* step.rs 169-179: what the task captures when it is created.  values will hold
\* the seed of the values the device returns, new_timings the aggregate.
NewTask(qs, period, n) ==
    [timestamps |-> qs, timestamp_period |-> period, num_substeps |-> n,
     pc |-> "wait", values |-> None, new_timings |-> None]

\* A readback that blocks the invocation and stores the aggregate at once.
SpawnBlocking ==
    /\ pc = "spawn"
    /\ IF timings.timestamps /= None
       THEN /\ \E seed \in Seeds :
                    timings' = Aggregate(unwrap(timings.timestamps),
                                         wait_for_results(unwrap(timings.timestamps), seed),
                                         device.timestamp_period, num_substeps)
            /\ trace' = Append(trace, "spawn")
       ELSE UNCHANGED <<timings, trace>>
    /\ pc' = "collapse"
    /\ UNCHANGED <<hostVars, deviceVars, channel, tasks, localVars, gpuVars, submitted,
                   pending_at_entry, frame, entry_state, submissions>>

\* A hand-off that gives the task a clone and keeps the query-set in the snapshot.
SpawnKeeping ==
    /\ pc = "spawn"
    /\ IF timings.timestamps /= None
       THEN /\ tasks' = tasks \cup
                    {NewTask(unwrap(timings.timestamps), device.timestamp_period, num_substeps)}
            /\ trace' = Append(trace, "spawn")
       ELSE UNCHANGED <<tasks, trace>>
    /\ pc' = "collapse"
    /\ UNCHANGED <<hostVars, deviceVars, timings, channel, localVars, gpuVars, submitted,
                   pending_at_entry, frame, entry_state, submissions>>

\* A hand-off that leaves the frame loop a new query-set for the next frame.
SpawnFresh ==
    /\ pc = "spawn"
    /\ IF timings.timestamps /= None
       THEN /\ tasks' = tasks \cup
                    {NewTask(unwrap(timings.timestamps), device.timestamp_period, num_substeps)}
            /\ timings' = [timings EXCEPT !.timestamps = Some(NewGpuTimestamps)]
            /\ trace' = Append(trace, "spawn")
       ELSE UNCHANGED <<tasks, timings, trace>>
    /\ pc' = "collapse"
    /\ UNCHANGED <<hostVars, deviceVars, channel, localVars, gpuVars, submitted,
                   pending_at_entry, frame, entry_state, submissions>>

\* A hand-off that takes the whole snapshot, std::mem::take(timings), and leaves
\* Timestamps::default() behind.
SpawnTakingSnapshot ==
    /\ pc = "spawn"
    /\ IF timings.timestamps /= None
       THEN /\ tasks' = tasks \cup
                    {NewTask(unwrap(timings.timestamps), device.timestamp_period, num_substeps)}
            /\ timings' = DefaultTimestamps(None)
            /\ trace' = Append(trace, "spawn")
       ELSE UNCHANGED <<tasks, timings, trace>>
    /\ pc' = "collapse"
    /\ UNCHANGED <<hostVars, deviceVars, channel, localVars, gpuVars, submitted,
                   pending_at_entry, frame, entry_state, submissions>>

\* step.rs 169-209: hand the query-set to a detached readback task.
Spawn ==
    /\ pc = "spawn"
    /\ IF timings.timestamps /= None
       THEN /\ tasks' = tasks \cup
                    {NewTask(unwrap(timings.timestamps), device.timestamp_period, num_substeps)}
            /\ timings' = [timings EXCEPT !.timestamps = None]
            /\ trace' = Append(trace, "spawn")
       ELSE UNCHANGED <<tasks, timings, trace>>
    /\ pc' = "collapse"
    /\ UNCHANGED <<hostVars, deviceVars, channel, localVars, gpuVars, submitted,
                   pending_at_entry, frame, entry_state, submissions>>

\* step.rs 211-214: the collapse of Step; the locals are dropped on return.
StepNeverCollapses(rs) == rs
StepCollapseAll(rs) == "Paused"
StepCollapse(rs) == IF rs = "Step" THEN "Paused" ELSE rs

Collapse ==
    /\ pc = "collapse"
    /\ run_state' = StepCollapse(run_state)
    /\ pc' = "idle"
    /\ sub' = 0
    /\ queue' = <<>>
    /\ encoder' = <<>>
    /\ poses_written' = None
    /\ vels_written' = None
    /\ submitted' = <<>>
    /\ pending_at_entry' = <<>>
    /\ trace' = <<>>
    /\ UNCHANGED <<num_substeps, physics, has_instances, rapier, deviceVars, profVars,
                   frame, entry_state, submissions>>

Invocation ==
    \/ StepNoPhysics
    \/ StepPaused
    \/ \E w \in Worlds : StepEnter(w)
    \/ DrainRecv
    \/ DrainEmpty
    \/ ClearTimestamps
    \/ UploadPoses
    \/ UploadVels
    \/ QueueStep
    \/ EncodeSubstep
    \/ CopyAndResolve
    \/ Repack
    \/ Submit
    \/ Spawn
    \/ Collapse

-----------------------------------------------------------------------------
(* step.rs 173-206: a readback task on the ComputeTaskPool                 *)

\* A task that reads app_state.num_substeps when the query-set resolves instead
\* of the value captured when it was spawned.
TaskResultsCurrentSubsteps(t) ==
    /\ t \in tasks
    /\ t.pc = "wait"
    /\ \E seed \in Seeds :
          LET values == wait_for_results(t.timestamps, seed) IN
          IF LengthAsserted(values, num_substeps)
          THEN tasks' = (tasks \ {t}) \cup
                {[t EXCEPT !.pc = "send",
                           !.values = Some(seed),
                           !.new_timings = Some(Aggregate(t.timestamps, values,
                                                     t.timestamp_period, num_substeps))]}
          ELSE tasks' = (tasks \ {t}) \cup {[t EXCEPT !.pc = "panicked"]}
    /\ UNCHANGED <<hostVars, deviceVars, timings, channel, pc, localVars, gpuVars,
                   submitted, pending_at_entry, frame, entry_state, submissions, trace>>

\* step.rs 174-204: the query-set resolves; the task builds its aggregate.  When
\* the buffer is shorter than num_substeps * 2 * 9 the task panics, at the
\* debug_assert (line 182) or, without debug assertions, at the first index out
\* of range (line 202): the pool drops the task and the query-set it owns, and
\* nothing is sent.  The record stays as history, with pc = "panicked".
TaskResults(t) ==
    /\ t \in tasks
    /\ t.pc = "wait"
    /\ \E seed \in Seeds :
          LET values == wait_for_results(t.timestamps, seed) IN
          IF LengthAsserted(values, t.num_substeps)
          THEN tasks' = (tasks \ {t}) \cup
                {[t EXCEPT !.pc = "send",
                           !.values = Some(seed),
                           !.new_timings = Some(Aggregate(t.timestamps, values,
                                                     t.timestamp_period, t.num_substeps))]}
          ELSE tasks' = (tasks \ {t}) \cup {[t EXCEPT !.pc = "panicked"]}
    /\ UNCHANGED <<hostVars, deviceVars, timings, channel, pc, localVars, gpuVars,
                   submitted, pending_at_entry, frame, entry_state, submissions, trace>>

\* step.rs 205: timings_snd.send(new_timings).await; the channel is unbounded.
TaskSend(t) ==
    /\ t \in tasks
    /\ t.pc = "send"
    /\ channel' = Append(channel, unwrap(t.new_timings))
    /\ tasks' = tasks \ {t}
    /\ UNCHANGED <<hostVars, deviceVars, timings, pc, localVars, gpuVars,
                   submitted, pending_at_entry, frame, entry_state, submissions, trace>>

Readback == \E t \in tasks : TaskResults(t) \/ TaskSend(t)

Next == Host \/ Invocation \/ Readback

Spec == Init /\ [][Next]_vars

-----------------------------------------------------------------------------
(* The drain loop on its own (step.rs 63-65): the channel is public, so    *)
(* any number of aggregates may be waiting when an invocation is entered.  *)

MaxChan == 2

\* Aggregates of every shape: with and without a query-set, with different fields.
AggregateChoices ==
    {[DefaultTimestamps(ts) EXCEPT !.grid_sort = a, !.integrate_bodies = b] :
        ts \in {None, Some(NewGpuTimestamps)}, a \in 0 .. 1, b \in 0 .. 1}

\* The sequences over S of length at most n.
RECURSIVE SeqsUpTo(_, _)
SeqsUpTo(S, n) ==
    IF n = 0 THEN {<<>>}
    ELSE LET shorter == SeqsUpTo(S, n - 1) IN
         shorter \cup {Append(q, x) : q \in shorter, x \in S}

InitDrain ==
    /\ run_state \in {"Running", "Step"}
    /\ num_substeps = 1
    /\ physics = Some([coupling |-> <<>>])
    /\ has_instances = FALSE
    /\ rapier = World(1)
    /\ device = [timestamp_query |-> TRUE, timestamp_period |-> 1]
    /\ timings \in AggregateChoices
    /\ channel \in SeqsUpTo(AggregateChoices, MaxChan)
    /\ tasks = {}
    /\ pc = "idle"
    /\ sub = 0
    /\ queue = <<>>
    /\ encoder = <<>>
    /\ poses_written = None
    /\ vels_written = None
    /\ submitted = <<>>
    /\ frame = 0
    /\ entry_state = "NotEntered"
    /\ submissions = 0
    /\ pending_at_entry = <<>>
    /\ trace = <<>>

NextDrain ==
    \/ StepEnter(World(1))
    \/ DrainRecv
    \/ DrainEmpty

SpecDrain == InitDrain /\ [][NextDrain]_vars

\* The same, with a host that pauses and resumes between invocations.
NextPausedDrain ==
    \/ \E s \in RunState : SetRunState(s)
    \/ StepPaused
    \/ StepEnter(World(1))
    \/ DrainRecv
    \/ DrainEmpty

SpecPausedDrain == InitDrain /\ [][NextPausedDrain]_vars

-----------------------------------------------------------------------------
(* The scenes of examples/*.rs once their setup systems have run: the      *)
(* PhysicsContext and the instance buffer exist and num_substeps is the    *)
(* value the example sets (cube.rs 112, configurations.rs 129,             *)
(* rocks.rs 106).                                                          *)

ExampleSubsteps == {8, 16, 32}

InitExamples ==
    /\ run_state = "Running"
    /\ num_substeps \in ExampleSubsteps
    /\ physics \in {Some([coupling |-> c]) : c \in CouplingChoices}
    /\ has_instances = TRUE
    /\ rapier = World(1)
    /\ device \in Devices
    /\ timings = DefaultTimestamps(StartupTimestamps(device.timestamp_query))
    /\ channel = <<>>
    /\ tasks = {}
    /\ pc = "idle"
    /\ sub = 0
    /\ queue = <<>>
    /\ encoder = <<>>
    /\ poses_written = None
    /\ vels_written = None
    /\ submitted = <<>>
    /\ frame = 0
    /\ entry_state = "NotEntered"
    /\ submissions = 0
    /\ pending_at_entry = <<>>
    /\ trace = <<>>

NextExamples ==
    \/ \E w \in Worlds : StepEnter(w)
    \/ DrainRecv
    \/ DrainEmpty
    \/ ClearTimestamps
    \/ UploadPoses
    \/ UploadVels
    \/ QueueStep
    \/ EncodeSubstep
    \/ CopyAndResolve
    \/ Repack
    \/ Submit
    \/ Spawn
    \/ Collapse
    \/ Readback

SpecExamples == InitExamples /\ [][NextExamples]_vars

-----------------------------------------------------------------------------
(* A scene whose coupled colliders and bodies the host may remove from the *)
(* rigid-body world between two frames, while the coupling set, fixed at   *)
(* scene setup, still names them.                                          *)

\* The world without the colliders cs and the bodies bs.
Without(world, cs, bs) ==
    [world EXCEPT !.colliders = [h \in (DOMAIN world.colliders) \ cs |-> world.colliders[h]],
                  !.bodies = [h \in (DOMAIN world.bodies) \ bs |-> world.bodies[h]]]

StaleWorlds ==
    {Without(World(1), cs, bs) : cs \in SUBSET Handles, bs \in SUBSET Handles}
        \ {World(1)}

InitStale ==
    /\ run_state = "Running"
    /\ num_substeps \in NumSubstepsChoices
    /\ physics = Some([coupling |-> [j \in 1 .. MaxCoupling |-> CouplingEntry(j)]])
    /\ has_instances = FALSE
    /\ rapier = World(1)
    /\ device \in Devices
    /\ timings = DefaultTimestamps(StartupTimestamps(device.timestamp_query))
    /\ channel = <<>>
    /\ tasks = {}
    /\ pc = "idle"
    /\ sub = 0
    /\ queue = <<>>
    /\ encoder = <<>>
    /\ poses_written = None
    /\ vels_written = None
    /\ submitted = <<>>
    /\ frame = 0
    /\ entry_state = "NotEntered"
    /\ submissions = 0
    /\ pending_at_entry = <<>>
    /\ trace = <<>>

NextStale ==
    \/ \E w \in Worlds \cup StaleWorlds : StepEnter(w)
    \/ DrainRecv
    \/ DrainEmpty
    \/ ClearTimestamps
    \/ UploadPoses
    \/ UploadVels
    \/ QueueStep
    \/ EncodeSubstep
    \/ CopyAndResolve
    \/ Repack
    \/ Submit
    \/ Spawn
    \/ Collapse
    \/ Readback

SpecStale == InitStale /\ [][NextStale]_vars

-----------------------------------------------------------------------------
(* A run already under way: the frame loop is between two invocations, the *)
(* snapshot shows the aggregate drained by the last invocation, and the    *)
(* query-set is with the task that invocation spawned (step.rs 169-209).   *)
(* Frames are counted from this point: the last invocation is frame 0 and  *)
(* the snapshot measures frame -1.                                         *)

\* The query-set as frame f left it: n substeps encoded and resolved, no repack.
SubmittedQuerySet(f, n) ==
    [NewGpuTimestamps EXCEPT !.len = n * 2 * NumStages,
                             !.resolved = n * 2 * NumStages,
                             !.frame = f]

InitUnderWay ==
    /\ run_state = "Running"
    /\ num_substeps \in NumSubstepsChoices
    /\ physics \in {Some([coupling |-> c]) : c \in CouplingChoices}
    /\ has_instances = FALSE
    /\ rapier = World(1)
    /\ device \in {d \in Devices : d.timestamp_query}
    /\ \E seed \in Seeds :
          timings = [Aggregate(SubmittedQuerySet(-1, num_substeps),
                               wait_for_results(SubmittedQuerySet(-1, num_substeps), seed),
                               device.timestamp_period, num_substeps)
                        EXCEPT !.timestamps = None]
    /\ channel = <<>>
    /\ tasks = {NewTask(SubmittedQuerySet(0, num_substeps), device.timestamp_period,
                        num_substeps)}
    /\ pc = "idle"
    /\ sub = 0
    /\ queue = <<>>
    /\ encoder = <<>>
    /\ poses_written = None
    /\ vels_written = None
    /\ submitted = <<>>
    /\ frame = 0
    /\ entry_state = "Running"
    /\ submissions = 1
    /\ pending_at_entry = <<>>
    /\ trace = <<>>

SpecUnderWay == InitUnderWay /\ [][NextExamples]_vars

-----------------------------------------------------------------------------
(* Fairness: the ComputeTaskPool keeps polling a spawned task, the device  *)
(* completes the work submitted to it, and a send on the unbounded channel *)
(* (startup.rs 45) completes at once.  Nothing obliges the frame loop or   *)
(* the host to take a step.                                                *)

FairSpec == Spec /\ WF_vars(Readback)

SpecExamplesFair == SpecExamples /\ WF_vars(Readback)

-----------------------------------------------------------------------------
(* Claims                                                                  *)

\* A step in which an invocation returns: the last statement of a full
\* invocation, or an invocation that returns at once (no physics, paused).
Returns == pc' = "idle" /\ (pc = "collapse" \/ (pc = "idle" /\ entry_state' /= entry_state))

\* C1 (as stated): every invocation entered with run_state = Step returns with
\* run_state = Paused.
C1_StepAlwaysCollapses ==
    [][(Returns /\ entry_state' = "Step") => run_state' = "Paused"]_vars

\* C1 (amended): every invocation entered with run_state = Step while the
\* PhysicsContext is present returns with run_state = Paused, with and without
\* a query-set.
C1_StepCollapsesWithPhysics ==
    [][(Returns /\ entry_state' = "Step" /\ physics /= None) => run_state' = "Paused"]_vars

\* C1 witness: an invocation entered in Step has returned, after handing its
\* query-set to a readback task.
C1_Witness ==
    /\ pc = "idle"
    /\ entry_state = "Step"
    /\ run_state = "Paused"
    /\ submissions = 1
    /\ tasks /= {}

\* C2 (as stated): an invocation submits to the GPU if and only if run_state is
\* not Paused when it is entered.
C2_SubmitIffNotPaused ==
    [][Returns => (submissions' = 1 <=> entry_state' /= "Paused")]_vars

\* C2 (amended): an invocation with the PhysicsContext present submits to the GPU
\* if and only if run_state is not Paused when it is entered.
C2_SubmitIffNotPausedWithPhysics ==
    [][(Returns /\ physics /= None) =>
            (submissions' = 1 <=> entry_state' /= "Paused")]_vars

\* C2 witness: an invocation entered in Running has returned with one submission.
C2_Witness ==
    /\ pc = "idle"
    /\ entry_state = "Running"
    /\ submissions = 1
    /\ physics /= None

\* C3: an invocation entered with run_state = Paused submits nothing, uploads
\* nothing, spawns no task, leaves run_state Paused and leaves the snapshot and
\* the channel as they are.
C3_PausedIsNoop ==
    [][(Returns /\ entry_state' = "Paused") =>
            /\ pc = "idle"
            /\ submissions' = 0
            /\ submitted' = <<>>
            /\ poses_written' = None
            /\ vels_written' = None
            /\ trace' = <<>>
            /\ tasks' = tasks
            /\ channel' = channel
            /\ timings' = timings
            /\ run_state' = "Paused"]_vars

\* C3 witness: a paused invocation has returned while an aggregate waits in the
\* channel.
C3_Witness ==
    /\ pc = "idle"
    /\ entry_state = "Paused"
    /\ run_state = "Paused"
    /\ physics /= None
    /\ channel /= <<>>

\* C4: when aggregates wait in the channel as an invocation is entered, the drain
\* leaves the channel empty and the snapshot equal to the last of them.
C4_DrainLastWins ==
    (pc = "clear" /\ pending_at_entry /= <<>>) =>
        /\ channel = <<>>
        /\ timings = pending_at_entry[Len(pending_at_entry)]

\* C4 witness: two different aggregates were waiting and the drain is over.
C4_Witness ==
    /\ pc = "clear"
    /\ Len(pending_at_entry) = 2
    /\ pending_at_entry[1] /= pending_at_entry[2]
    /\ timings /= pending_at_entry[1]

\* The sum over the substeps i < n of the duration of stage k (counted from 0):
\* sample[i*18 + 2k + 1] - sample[i*18 + 2k].
RECURSIVE StageSum(_, _, _)
StageSum(ms, n, k) ==
    IF n = 0 THEN 0
    ELSE StageSum(ms, n - 1, k)
            + ms[(n - 1) * 2 * NumStages + 2 * k + 1]
            - ms[(n - 1) * 2 * NumStages + 2 * k]

\* C5: each stage field of the aggregate a readback task sends is the sum over
\* the task's substeps of that stage's (end - start) samples, in milliseconds.
C5_AggregateIsSumOverSubsteps ==
    \A t \in tasks :
        t.pc = "send" =>
            LET ms == timestamps_to_ms(wait_for_results(t.timestamps, unwrap(t.values)),
                                       t.timestamp_period)
                new_timings == unwrap(t.new_timings)
            IN  \A k \in 0 .. NumStages - 1 :
                    new_timings[StageNames[k + 1]] = StageSum(ms, t.num_substeps, k)

\* C5 witness: a task has aggregated more than one substep.
C5_Witness ==
    \E t \in tasks :
        /\ t.pc = "send"
        /\ t.num_substeps >= 2
        /\ unwrap(t.new_timings).grid_sort > 0

\* C6: on a device without timestamp queries every duration of the snapshot stays
\* 0, no readback task exists and nothing is in the channel.
C6_NoTimestampSupportNoTimings ==
    ~device.timestamp_query =>
        /\ \A k \in 1 .. Len(StageNames) : timings[StageNames[k]] = 0
        /\ total_time(timings) = 0
        /\ timings.timestamps = None
        /\ tasks = {}
        /\ channel = <<>>

\* C6 witness: without timestamp queries, the last of several invocations has
\* submitted and returned.
C6_Witness ==
    /\ ~device.timestamp_query
    /\ frame = MaxFrames
    /\ submissions = 1
    /\ pc = "idle"

\* C7: every uploaded velocity has the body's angular velocity; its linear
\* velocity is the body's plus gravity * dt / num_substeps for a dynamic body and
\* the body's own for any other body.
C7_GravityOnlyForDynamicBodies ==
    vels_written /= None =>
        LET coupling == unwrap(physics).coupling
            vels == unwrap(vels_written)
        IN  /\ Len(vels) = Len(coupling)
            /\ \A j \in 1 .. Len(coupling) :
                LET rb == rapier.bodies[coupling[j].body] IN
                /\ vels[j].angular = rb.angvel
                /\ vels[j].linear[1] = rb.linvel[1]
                /\ vels[j].linear[3] = rb.linvel[3]
                /\ rb.body_type = "Dynamic" =>
                        (vels[j].linear[2] - rb.linvel[2]) * num_substeps
                            = GravityY * rapier.dt
                /\ rb.body_type /= "Dynamic" => vels[j].linear[2] = rb.linvel[2]

\* C7 witness: a dynamic and a kinematic body were uploaded with two substeps.
C7_Witness ==
    /\ vels_written /= None
    /\ num_substeps = 2
    /\ \E j \in 1 .. Len(unwrap(vels_written)) :
          rapier.bodies[unwrap(physics).coupling[j].body].body_type = "Dynamic"
    /\ \E j \in 1 .. Len(unwrap(vels_written)) :
          rapier.bodies[unwrap(physics).coupling[j].body].body_type
              = "KinematicVelocityBased"

\* The places of an event in the trace of the invocation in progress.
Positions(ev) == {p \in 1 .. Len(trace) : trace[p] = ev}

Uploads == Positions("write_poses") \cup Positions("write_vels")
Encodes == Positions("encode_substep") \cup Positions("encode_repack")

\* C8: within an invocation the uploads come first, then the substeps, then the
\* render repack, then the one submit; nothing is encoded after the submit.
C8_UploadEncodeRepackSubmit ==
    /\ \A e \in Encodes :
          /\ \E u \in Positions("write_poses") : u < e
          /\ \E u \in Positions("write_vels") : u < e
    /\ \A r \in Positions("encode_repack") :
          /\ \A e \in Positions("encode_substep") : e < r
          /\ Cardinality(Positions("encode_substep")) = num_substeps
    /\ \A b \in Positions("submit") : \A p \in Uploads \cup Encodes : p < b
    /\ Cardinality(Positions("submit")) <= 1
    /\ pc \in {"spawn", "collapse"} =>
          /\ Cardinality(Positions("submit")) = 1
          /\ Cardinality(Positions("encode_substep")) = num_substeps
          /\ Cardinality(Positions("encode_repack")) = BoolToInt(has_instances)
          /\ Cardinality(Uploads) = 2

\* C8 witness: an invocation with two substeps and a render repack has submitted.
C8_Witness ==
    /\ pc = "spawn"
    /\ num_substeps = 2
    /\ Positions("encode_repack") /= {}
    /\ Positions("submit") /= {}

\* C9: an invocation always has a next step, whatever readback is in flight and
\* whatever the channel holds.
C9_InvocationNeverWaits ==
    (pc /= "idle" \/ frame < MaxFrames) => ENABLED Invocation

\* C9 witness: an invocation has submitted and returned while the readback of
\* an earlier frame is still waiting for its results.
C9_Witness ==
    /\ pc = "idle"
    /\ submissions = 1
    /\ \E t \in tasks : t.pc = "wait" /\ t.timestamps.frame < frame

\* C10: the snapshot never shows the timings of the latest invocation past the
\* gate, and it changes only in the drain of an invocation.
C10_TimingsLagTheirFrame ==
    [][/\ timings'.src /= 0 => timings'.src < frame'
       /\ timings'.src /= timings.src => (pc = "drain" /\ pc' = "drain")]_vars

\* C10 witness: the timings of the first frame are visible after the second
\* invocation has returned.
C10_Witness ==
    /\ pc = "idle"
    /\ timings.src = 1
    /\ frame = 2
    /\ total_time(timings) > 0

\* C11: an invocation without the PhysicsContext submits nothing, drains
\* nothing, spawns nothing and leaves run_state and the snapshot as they are; an
\* invocation with the PhysicsContext, not paused, goes on to the drain.
C11_NoPhysicsIsNoop ==
    [][/\ (Returns /\ physics = None) =>
            /\ pc = "idle"
            /\ submissions' = 0
            /\ submitted' = <<>>
            /\ poses_written' = None
            /\ vels_written' = None
            /\ tasks' = tasks
            /\ channel' = channel
            /\ timings' = timings
            /\ run_state' = run_state
            /\ frame' = frame
       /\ (pc = "idle" /\ physics /= None /\ run_state /= "Paused"
                /\ entry_state' /= entry_state) =>
            /\ pc' = "drain"
            /\ frame' = frame + 1]_vars

\* C11 witness: an invocation entered in Running without the PhysicsContext has
\* returned (no frame was counted), the context has since been inserted and the
\* next invocation can go on.
C11_Witness ==
    /\ pc = "idle"
    /\ frame = 0
    /\ entry_state = "Running"
    /\ run_state = "Running"
    /\ physics /= None
    /\ ENABLED (\E w \in Worlds : StepEnter(w))

\* C12 (as stated): the result buffer of every readback task holds at least
\* num_substeps * 2 * 9 samples, so that no task fails its length assertion.
C12_BufferHoldsAllSamples ==
    \A t \in tasks :
        /\ Length(wait_for_results(t.timestamps, 1)) >= t.num_substeps * 2 * NumStages
        /\ t.pc /= "panicked"

\* C13: with an empty coupling set an invocation past the gate writes pose and
\* velocity arrays of length zero, encodes num_substeps substeps, submits once,
\* and has a next step at every position.
C13_EmptyCouplingStillSteps ==
    (physics /= None /\ unwrap(physics).coupling = <<>>) =>
        /\ poses_written /= None => unwrap(poses_written) = <<>>
        /\ vels_written /= None => unwrap(vels_written) = <<>>
        /\ pc /= "idle" => ENABLED Invocation
        /\ pc \in {"spawn", "collapse"} =>
              /\ poses_written /= None
              /\ vels_written /= None
              /\ Cardinality(Positions("encode_substep")) = num_substeps
              /\ submissions = 1
              /\ Len(submitted) = 1

\* C13 witness: an invocation with two substeps and no coupled body has
\* submitted.
C13_Witness ==
    /\ pc = "spawn"
    /\ physics /= None
    /\ unwrap(physics).coupling = <<>>
    /\ num_substeps = 2
    /\ poses_written = Some(<<>>)
    /\ vels_written = Some(<<>>)
    /\ submissions = 1

\* q repeated n times.
RECURSIVE Repeat(_, _)
Repeat(q, n) == IF n = 0 THEN <<>> ELSE q \o Repeat(q, n - 1)

\* The invocation in progress handed a query-set to a readback task: the task,
\* or the aggregate it has sent since, carries the frame's number.
ProfiledThisFrame ==
    \/ \E t \in tasks : t.timestamps.frame = frame
    \/ \E j \in 1 .. Len(channel) : channel[j].src = frame

\* The commands of a whole invocation: the passes of every substep, the pose
\* copy, the query resolution and the render repack.
HoldsAllCommands(batch) ==
    /\ Len(batch) = num_substeps * NumStages + 1
                      + BoolToInt(ProfiledThisFrame) + BoolToInt(has_instances)
    /\ SubSeq(batch, 1, num_substeps * NumStages) = Repeat(StageNames, num_substeps)
    /\ batch[num_substeps * NumStages + 1] = "copy_poses"
    /\ ProfiledThisFrame <=> \E j \in 1 .. Len(batch) : batch[j] = "resolve"
    /\ has_instances <=> \E j \in 1 .. Len(batch) : batch[j] = "prep_vertex_buffer"

\* C14 (as stated): every invocation entered with run_state other than Paused
\* returns having submitted exactly once, a batch that holds everything it encoded.
C14_SubmitsOnce ==
    [][(Returns /\ entry_state' /= "Paused") =>
            /\ pc = "collapse"
            /\ submissions' = 1
            /\ Len(submitted) = 1
            /\ HoldsAllCommands(submitted[1])]_vars

\* C14 (amended): every invocation entered with the PhysicsContext present and
\* run_state other than Paused returns having submitted exactly once, a batch
\* that holds everything it encoded.
C14_SubmitsOnceWithPhysics ==
    [][(Returns /\ physics /= None /\ entry_state' /= "Paused") =>
            /\ pc = "collapse"
            /\ submissions' = 1
            /\ Len(submitted) = 1
            /\ HoldsAllCommands(submitted[1])]_vars

\* C14 witness: an invocation with two substeps, a render repack and a query
\* resolution is about to return with its one submission.
C14_Witness ==
    /\ pc = "collapse"
    /\ num_substeps = 2
    /\ has_instances
    /\ ProfiledThisFrame
    /\ submissions = 1
    /\ Len(submitted[1]) = 2 * NumStages + 3

\* C15 (as stated): when the invocation resolves its query-set, the resolve is
\* the last command of the batch it submits: it comes after every substep, after
\* the pose copy and after the render repack.
C15_ResolveIsLast ==
    \A b \in 1 .. Len(submitted) :
        LET batch == submitted[b] IN
        \A r \in 1 .. Len(batch) :
            batch[r] = "resolve" =>
                /\ r = Len(batch)
                /\ \A j \in 1 .. Len(batch) :
                      batch[j] \in {"copy_poses", "prep_vertex_buffer"} => j < r

\* The positions of an invocation between its drain and its hand-off.
Stepping == {"upload_poses", "upload_vels", "queue_step", "encode", "repack", "submit"}

\* C16 (as stated): on a device with timestamp queries every invocation past the
\* gate has a live query-set and requests profiling, whatever became of the
\* readback of the frame before.
C16_FreshQuerySetEachFrame ==
    (device.timestamp_query /\ pc \in Stepping) => timings.timestamps /= None

\* C16 (amended): on a device with timestamp queries the snapshot holds no
\* query-set once an invocation has handed it to a task; an invocation past the
\* gate has one, and requests profiling, exactly when it is the first one or its
\* drain received an aggregate, which brings the query-set back.
C16_QuerySetComesBackThroughDrain ==
    device.timestamp_query =>
        /\ (pc \in {"collapse", "idle"} /\ frame >= 1) => timings.timestamps = None
        /\ pc \in Stepping =>
              (timings.timestamps /= None <=> (frame = 1 \/ Positions("recv") /= {}))
        /\ (pc = "encode" /\ timings.timestamps /= None) =>
              \A j \in 1 .. Len(queue) : queue[j].timed

\* C16 witness: the second invocation steps without a query-set while the
\* readback of the first is still waiting for its results.
C16_Witness ==
    /\ device.timestamp_query
    /\ pc = "encode"
    /\ frame = 2
    /\ timings.timestamps = None
    /\ \E t \in tasks : t.pc = "wait" /\ t.timestamps.frame = 1

\* The aggregates that tasks have built: those about to be sent and those sent.
Aggregates ==
    {unwrap(t.new_timings) : t \in {u \in tasks : u.pc = "send"}}
        \cup {channel[j] : j \in 1 .. Len(channel)}

\* C17 (as stated): no aggregate a readback task sends carries a query-set.
C17_AggregateHasNoQuerySet ==
    \A a \in Aggregates : a.timestamps = None

\* C17 (amended): every aggregate a readback task sends carries, with its
\* durations, the query-set the task was handed: the one that measured the
\* aggregate's frame.
C17_AggregateReturnsQuerySet ==
    /\ \A a \in Aggregates :
          /\ a.timestamps /= None
          /\ unwrap(a.timestamps).frame = a.src
          /\ a.src \in 1 .. frame
          /\ \A k \in 1 .. Len(StageNames) : a[StageNames[k]] >= 0
    /\ \A t \in tasks :
          t.pc = "send" => unwrap(t.new_timings).timestamps = Some(t.timestamps)

\* C17 witness: an aggregate with measured durations waits in the channel with
\* its query-set.
C17_Witness ==
    /\ channel /= <<>>
    /\ channel[1].timestamps /= None
    /\ total_time(channel[1]) > 0

\* The readback tasks that are running: they wait for their results or are
\* about to send.
InFlight == {t \in tasks : t.pc \in {"wait", "send"}}

\* The parties that hold a query-set: the snapshot, the running tasks, the
\* aggregates waiting in the channel.
Holders ==
    BoolToInt(timings.timestamps /= None)
        + Cardinality(InFlight)
        + Cardinality({j \in 1 .. Len(channel) : channel[j].timestamps /= None})

\* C18 (as stated): on a device with timestamp queries the query-set is held by
\* exactly one party at any time, never by two and never by none; the frame loop
\* holds none while a task is running.
C18_ExactlyOneHolder ==
    device.timestamp_query =>
        /\ Holders = 1
        /\ InFlight /= {} => timings.timestamps = None

\* C19: an invocation spawns at most one readback task, and spawns one exactly
\* when it requested profiling (it cleared and resolved a live query-set); at
\* most one readback task is running at any time.
C19_AtMostOneReadback ==
    /\ Cardinality(InFlight) <= 1
    /\ Cardinality(Positions("spawn")) <= 1
    /\ Cardinality({t \in tasks : t.timestamps.frame = frame}) <= 1
    /\ Positions("spawn") /= {} =>
          /\ Positions("clear") /= {}
          /\ Positions("resolve") /= {}
          /\ ProfiledThisFrame
    /\ pc = "collapse" => (Positions("spawn") /= {} <=> Positions("resolve") /= {})
    /\ \A t \in InFlight : t.timestamps.frame \in 1 .. frame

\* C19 witness: the second invocation has spawned its readback task after the
\* first one's task finished, and that task is the only one running.
C19_Witness ==
    /\ pc = "collapse"
    /\ frame = 2
    /\ Positions("spawn") /= {}
    /\ Cardinality(InFlight) = 1
    /\ \E t \in InFlight : t.timestamps.frame = 2

\* C20 (as stated): every readback task that was spawned eventually sends its
\* aggregate on the channel, whatever the frame loop and the host do.
C20_EveryReadbackSends ==
    \A f \in 1 .. MaxFrames :
        (\E t \in tasks : t.pc = "wait" /\ t.timestamps.frame = f)
            ~> (\E j \in 1 .. Len(channel) : channel[j].src = f)

\* C21: inside an invocation run_state changes only from Step to Paused; an
\* invocation entered in Running returns in Running, one entered in Paused
\* returns in Paused, and entering an invocation changes nothing.
C21_OnlyStepToPaused ==
    [][/\ (pc /= "idle" /\ run_state' /= run_state) =>
             (run_state = "Step" /\ run_state' = "Paused" /\ pc = "collapse")
       /\ (pc = "idle" /\ entry_state' /= entry_state) => run_state' = run_state
       /\ Returns =>
             /\ entry_state' = "Running" => run_state' = "Running"
             /\ entry_state' = "Paused" => run_state' = "Paused"
             /\ run_state' \in {entry_state', "Paused"}]_vars

\* C21 witness: an invocation entered in Running has submitted and returned, and
\* run_state is still Running.
C21_Witness ==
    /\ pc = "idle"
    /\ entry_state = "Running"
    /\ run_state = "Running"
    /\ submissions = 1
    /\ frame = 2

\* The number of times the command x occurs in a batch.
Count(batch, x) == Cardinality({j \in 1 .. Len(batch) : batch[j] = x})

\* The batch holds every substep kernel n times and the repack kernel r times.
HoldsSubsteps(batch, n, r) ==
    /\ \A k \in 1 .. Len(StageNames) : Count(batch, StageNames[k]) = n
    /\ Count(batch, "prep_vertex_buffer") = r

\* C22 (as stated): every invocation entered with run_state other than Paused
\* encodes the substep kernels num_substeps times and the render repack once
\* when the instance buffer exists, never otherwise, and submits just that.
C22_EncodesNumSubsteps ==
    [][(Returns /\ entry_state' /= "Paused") =>
            /\ pc = "collapse"
            /\ Cardinality(Positions("encode_substep")) = num_substeps
            /\ Cardinality(Positions("encode_repack")) = BoolToInt(has_instances)
            /\ Len(submitted) = 1
            /\ HoldsSubsteps(submitted[1], num_substeps, BoolToInt(has_instances))]_vars

\* C22 (amended): every invocation entered with the PhysicsContext present and
\* run_state other than Paused encodes the substep kernels num_substeps times
\* and the render repack once when the instance buffer exists, never otherwise,
\* and submits just that.
C22_EncodesNumSubstepsWithPhysics ==
    [][(Returns /\ physics /= None /\ entry_state' /= "Paused") =>
            /\ pc = "collapse"
            /\ Cardinality(Positions("encode_substep")) = num_substeps
            /\ Cardinality(Positions("encode_repack")) = BoolToInt(has_instances)
            /\ Len(submitted) = 1
            /\ HoldsSubsteps(submitted[1], num_substeps, BoolToInt(has_instances))]_vars

\* C22 witness: an invocation with two substeps and a render repack is about to
\* return: its batch holds each substep kernel twice and the repack kernel once.
C22_Witness ==
    /\ pc = "collapse"
    /\ num_substeps = 2
    /\ has_instances
    /\ Len(submitted) = 1
    /\ Count(submitted[1], "grid_sort") = 2
    /\ Count(submitted[1], "prep_vertex_buffer") = 1

\* The coupling set names a collider or a body that the world read by the
\* invocation in progress does not hold.
StaleCoupling ==
    /\ physics /= None
    /\ \/ ~CollidersExist(unwrap(physics).coupling, rapier)
       \/ ~BodiesExist(unwrap(physics).coupling, rapier)

\* C23: an invocation whose coupling set names a missing collider or body stops
\* in the upload step: it never gets to encode a substep, submits nothing and
\* spawns no readback task.
C23_StaleCouplingStopsInUpload ==
    (StaleCoupling /\ pc /= "idle") =>
        /\ pc \in {"drain", "clear", "upload_poses", "upload_vels", "panicked"}
        /\ encoder = <<>>
        /\ Positions("encode_substep") = {}
        /\ submissions = 0
        /\ submitted = <<>>
        /\ Positions("spawn") = {}
        /\ ~ProfiledThisFrame
        /\ ~CollidersExist(unwrap(physics).coupling, rapier) => poses_written = None
        /\ vels_written = None

\* C23 witness: the second invocation has stopped in the velocity upload, after
\* writing the poses, because a coupled body is gone.
C23_Witness ==
    /\ pc = "panicked"
    /\ frame = 2
    /\ StaleCoupling
    /\ poses_written /= None
    /\ submissions = 0

\* C24: when an invocation has a query-set after its drain, it clears it after
\* the drain and before the first substep is encoded: the queries written count
\* from zero, two per pass encoded by this invocation.
C24_ClearedBeforeEncoding ==
    (timings.timestamps /= None /\ pc \in Stepping) =>
        LET qs == unwrap(timings.timestamps) IN
        /\ Cardinality(Positions("clear")) = 1
        /\ \A c \in Positions("clear") :
              /\ \A r \in Positions("recv") : r < c
              /\ \A e \in Encodes : c < e
        /\ pc \in {"upload_poses", "upload_vels", "queue_step"} => qs.len = 0
        /\ pc = "encode" => qs.len = sub * 2 * NumStages
        /\ pc = "repack" =>
              /\ qs.len = num_substeps * 2 * NumStages
              /\ qs.resolved = num_substeps * 2 * NumStages

\* C24 witness: the second invocation received the query-set, which came back
\* with the queries of the first frame, and has encoded its first substep.
C24_Witness ==
    /\ pc = "encode"
    /\ frame = 2
    /\ sub = 1
    /\ Positions("recv") /= {}
    /\ timings.timestamps /= None
    /\ unwrap(timings.timestamps).len = 2 * NumStages
    /\ unwrap(timings.timestamps).resolved > 0

\* C25: an invocation entered in Paused leaves the channel and the snapshot as
\* they are; the channel loses an aggregate, and the snapshot changes, only in
\* the drain of an invocation entered in another state, which takes the oldest
\* aggregate first.
C25_PausedDoesNotDrain ==
    [][/\ (Returns /\ entry_state' = "Paused") =>
             (channel' = channel /\ timings' = timings)
       /\ (Len(channel') < Len(channel) \/ total_time(timings') /= total_time(timings)) =>
             /\ pc = "drain"
             /\ entry_state /= "Paused"
             /\ channel /= <<>>
             /\ channel' = Tail(channel)
             /\ timings' = Head(channel)]_vars

\* C25 witness: a paused invocation has returned and two different aggregates
\* still wait in the channel, neither of them visible.
C25_Witness ==
    /\ pc = "idle"
    /\ entry_state = "Paused"
    /\ run_state = "Paused"
    /\ Len(channel) = 2
    /\ channel[1] /= channel[2]
    /\ timings /= channel[1]
    /\ timings /= channel[2]

\* C26: the channel never holds more than one aggregate, and holds none while
\* a readback task is running or the snapshot has the query-set.
C26_AtMostOneAggregateWaiting ==
    /\ Len(channel) <= 1
    /\ Len(channel) + Cardinality(InFlight) <= 1
    /\ (channel /= <<>> /\ pc = "drain") => Len(pending_at_entry) <= 1
    /\ (channel /= <<>>) => timings.timestamps = None

\* C26 witness: the aggregate of the second frame waits alone in the channel
\* while the snapshot shows the first frame's.
C26_Witness ==
    /\ Len(channel) = 1
    /\ channel[1].src = 2
    /\ timings.src = 1
    /\ tasks = {}

\* The snapshot t shows the durations of the aggregate a.
Shows(t, a) ==
    /\ t.src = a.src
    /\ \A k \in 1 .. Len(StageNames) : t[StageNames[k]] = a[StageNames[k]]

\* A step that enters an invocation.
Entered == pc = "idle" /\ (entry_state' /= entry_state \/ frame' /= frame)

\* C27 (as stated): an invocation entered with run_state other than Paused while
\* an aggregate waits goes on to the drain, and from the end of its drain to its
\* return the snapshot shows the aggregate that was waiting.
C27_VisibleAtNextNonPaused ==
    [][/\ (Entered /\ run_state /= "Paused" /\ channel /= <<>>) => pc' = "drain"
       /\ (pc \notin {"idle", "drain"} /\ pending_at_entry /= <<>>) =>
             Shows(timings, pending_at_entry[Len(pending_at_entry)])]_vars

\* C27 (amended): an invocation entered with the PhysicsContext present and
\* run_state other than Paused while an aggregate waits goes on to the drain, and
\* from the end of its drain to its return the snapshot shows the aggregate that
\* was waiting.
C27_VisibleAtNextNonPausedWithPhysics ==
    [][/\ (Entered /\ physics /= None /\ run_state /= "Paused" /\ channel /= <<>>) =>
             pc' = "drain"
       /\ (pc \notin {"idle", "drain"} /\ pending_at_entry /= <<>>) =>
             Shows(timings, pending_at_entry[Len(pending_at_entry)])]_vars

\* C27 witness: the second invocation is about to return; the aggregate of the
\* first frame was waiting when it was entered and is what the snapshot shows.
C27_Witness ==
    /\ pc = "collapse"
    /\ frame = 2
    /\ Len(pending_at_entry) = 1
    /\ pending_at_entry[1].src = 1
    /\ Shows(timings, pending_at_entry[1])
    /\ total_time(timings) > 0

\* C28: only receiving an aggregate changes what the snapshot shows: every
\* other step, the clear and the hand-off of the query-set included, leaves all
\* nine duration fields as they were, so an invocation that finds the channel
\* empty returns with the durations it was entered with.
C28_DurationsChangeOnlyAtRecv ==
    [][Len(channel') >= Len(channel) => Shows(timings', timings)]_vars

\* C28 witness: an invocation found the channel empty and is about to return;
\* the snapshot still shows the timings drained by an earlier invocation.
C28_Witness ==
    /\ pc = "collapse"
    /\ Positions("recv") = {}
    /\ Positions("submit") /= {}
    /\ timings.src = -1
    /\ total_time(timings) > 0

\* The number of substeps whose queries the resolve command of a query-set covers.
SubstepsEncoded(qs) == qs.resolved \div (2 * NumStages)

\* C29: the num_substeps a task captured is the number of substeps its frame
\* encoded, and the aggregate it is about to send sums exactly those substeps,
\* whatever num_substeps is by now.
C29_AggregatesOverItsFrameSubsteps ==
    \A t \in tasks :
        t.pc = "send" =>
            /\ t.timestamps.resolved = t.num_substeps * 2 * NumStages
            /\ LET ms == timestamps_to_ms(
                            wait_for_results(t.timestamps, unwrap(t.values)),
                            t.timestamp_period)
               IN  \A k \in 0 .. NumStages - 1 :
                      unwrap(t.new_timings)[StageNames[k + 1]] =
                          StageSum(ms, SubstepsEncoded(t.timestamps), k)

\* C29 witness: the host changed num_substeps after the task was spawned; the
\* task has built its aggregate and is about to send it.
C29_Witness ==
    \E t \in tasks :
        /\ t.pc = "send"
        /\ t.num_substeps /= num_substeps
        /\ SubstepsEncoded(t.timestamps) = t.num_substeps
        /\ total_time(unwrap(t.new_timings)) > 0

====
